---- MODULE Spec2Model ----
(***************************************************************************)
(* A model of qibo's matplotlib circuit drawer (src/qibo/ui/mpldrawer.py). *)
(*                                                                         *)
(* Lengths are integers in hundredths of a plot unit (scale 0.6 is 60,     *)
(* dx 0.30 is 30), so that the float arithmetic of the drawer is exact.    *)
(* Python lists are sequences; a Python index k is the position k + 1.     *)
(* An exception is the status of the drawing surface: once the status is   *)
(* not "ok" nothing more is drawn, as when the exception propagates.       *)
(***************************************************************************)
EXTENDS Integers, Sequences, FiniteSets, TLC

VARIABLES
    plot_params,   \* the module-level dict plot_params
    STYLE,         \* the module-level dict STYLE
    SYMBOLS,       \* the module-level dict SYMBOLS
    styles_json,   \* the contents of styles.json, read at every plot call
    pc,            \* per thread: the place of its plot call in the code
    frame,         \* per thread: the arguments and locals of its plot call
    ax,            \* per thread: the drawing surface of its plot call
    last,          \* the last plot call that ended: arguments, surface
    budget,        \* per thread: the plot calls it may still start
    h              \* a direct call of one helper: function, input, output

vars == <<plot_params, STYLE, SYMBOLS, styles_json, pc, frame, ax, last, budget, h>>

-----------------------------------------------------------------------------
(* Bounds of the model. *)

MaxQubits == 2     \* circuits have 1..MaxQubits qubits
MaxCalls == 2      \* plot calls of the sequential session
MaxItems == 3      \* gate tuples handed to _make_cluster_gates
MaxColumns == 3    \* columns of a schedule handed to the layout helpers
MaxFused == 2      \* the inner-column count a start barrier's name carries

ScaleValues == {60, 100}     \* the scale argument: 0.6 (plot's default), 1.0

-----------------------------------------------------------------------------
(* Python built-ins. *)

Range(s) == {s[k] : k \in DOMAIN s}

Max2(a, b) == IF a >= b THEN a ELSE b
Min2(a, b) == IF a <= b THEN a ELSE b
Abs(a) == IF a >= 0 THEN a ELSE 0 - a

SetMax(S) == CHOOSE m \in S : \A x \in S : x <= m
SetMin(S) == CHOOSE m \in S : \A x \in S : m <= x

\* d.update(u) for dicts as functions on their keys.
Update(d, u) ==
    [k \in (DOMAIN d) \cup (DOMAIN u) |-> IF k \in DOMAIN u THEN u[k] ELSE d[k]]

\* np.arange(start, stop, step): start + k*step for k < ceil((stop-start)/step).
Arange(start, stop, step) ==
    LET span == stop - start
        n == IF span <= 0 THEN 0 ELSE (span + step - 1) \div step
    IN [k \in 1..n |-> start + (k - 1) * step]

\* grid[k] for a Python index k >= 0; InGrid is false where it raises IndexError.
InGrid(grid, k) == k >= 0 /\ k < Len(grid)
At(grid, k) == grid[k + 1]

\* "q_" + str(qbit)
Label(q) == "q_" \o ToString(q)

-----------------------------------------------------------------------------
(* The drawing surface: what was drawn, and the exception that ended it. *)

NewAx == [canvas |-> <<>>, status |-> "ok"]

Ok(a) == a.status = "ok"
Draw(a, prim) == IF Ok(a) THEN [a EXCEPT !.canvas = Append(@, prim)] ELSE a
Raise(a, err) == IF Ok(a) THEN [a EXCEPT !.status = err] ELSE a

\* plot_params as the module defines it (lengths in hundredths).
InitialPlotParams ==
    [scale |-> 100, fontsize |-> 1400, linewidth |-> 100, control_radius |-> 5,
     not_radius |-> 15, swap_delta |-> 8, label_buffer |-> 0,
     facecolor |-> "w", edgecolor |-> "#000000", fillcolor |-> "#000000",
     linecolor |-> "k", textcolor |-> "k", gatecolor |-> "w",
     controlcolor |-> "#000000"]

-----------------------------------------------------------------------------
(* Gate names.  A name is a string; the tests the code makes on a name are *)
(* written out over the finite set of names the model uses.                *)

\* The name of a start barrier as _process_gates upper-cases it and as
\* _draw_controls parses it: the word, the count, and "@EQUAL" when flagged.
StartBarrierName(nfused, equal_qbits) ==
    "FUSEDSTARTGATEBARRIER" \o ToString(nfused)
        \o (IF equal_qbits THEN "@EQUAL" ELSE "")

EndBarrierName == "FUSEDENDGATEBARRIER"

FusedCounts == 0..MaxFused

PlainNames == {"H", "X", "SDG", "ID", "MEASURE", "MS", "CNOT", "TOFFOLI",
               "CPHASE", "SWAP", "ISWAP"}

\* "FUSEDSTARTGATEBARRIER" in name
IsStartBarrier(name) ==
    \E k \in FusedCounts, e \in BOOLEAN : name = StartBarrierName(k, e)

\* "FUSEDENDGATEBARRIER" in name
IsEndBarrier(name) == name = EndBarrierName

\* "@EQUAL" in name
HasEqual(name) == \E k \in FusedCounts : name = StartBarrierName(k, TRUE)

\* int(name.replace("@EQUAL", "").replace("FUSEDSTARTGATEBARRIER", ""))
NFused(name) ==
    CHOOSE k \in FusedCounts : \E e \in BOOLEAN : name = StartBarrierName(k, e)

\* name.startswith("M")
StartsWithM(name) == name \in {"MEASURE", "MS"}

\* name[-2:] == "DG", and name.replace("DG", "")
EndsWithDG(name) == name \in {"SDG"}
StripDG(name) == IF name = "SDG" THEN "S" ELSE name

\* SYMBOLS.get(name, name)
SymbolOf(symbols, name) == IF name \in DOMAIN symbols THEN symbols[name] ELSE name

\* The two-qubit names whose controls _draw_controls draws as boxed text.
BoxedControlNames ==
    {"ISWAP", "SISWAP", "FSWAP", "FSIM", "SYC", "GENERALIZEDFSIM", "RXX", "RYY",
     "RZZ", "RZX", "RXXYY", "G", "RBS", "ECR", "MS"}

-----------------------------------------------------------------------------
(* Helpers of the drawer. *)

\* any(item in str for item in list): the generator's iterable is the built-in
\* type list, which is not iterable, so the call raises TypeError for every
\* argument before any item is looked at.
_check_list_str(substrings, string) == [raises |-> "TypeError", value |-> FALSE]

\* labels.index(target): the first position, or -1 where it raises ValueError.
ListIndex(labels, target) ==
    IF \E k \in 1..Len(labels) : labels[k] = target
    THEN (CHOOSE k \in 1..Len(labels) :
              /\ labels[k] = target
              /\ \A j \in 1..(k - 1) : labels[j] # target) - 1
    ELSE -1

_get_flipped_index_swapped(target, labels) == ListIndex(labels, target)

\* nq - i - 1, or -1 where labels.index raises ValueError.
_get_flipped_index(target, labels) ==
    LET nq == Len(labels)
        i == ListIndex(labels, target)
    IN IF i < 0 THEN -1 ELSE nq - i - 1

_get_flipped_indices(targets, labels) ==
    [k \in 1..Len(targets) |-> _get_flipped_index(targets[k], labels)]

_line(a, x1, x2, y1, y2, pp) ==
    Draw(a, [prim |-> "line", x1 |-> x1, x2 |-> x2, y1 |-> y1, y2 |-> y2,
             color |-> pp.linecolor, lw |-> pp.linewidth])

_text(a, x, y, textstr, pp, box) ==
    LET chk == _check_list_str(<<"dagger", "sqrt">>, textstr)
        fontsize == IF chk.value THEN 1200 ELSE pp.fontsize
    IN IF chk.raises # "" THEN Raise(a, chk.raises)
       ELSE Draw(a, [prim |-> "text", x |-> x, y |-> y, text |-> textstr,
                     color |-> pp.textcolor, box |-> box, size |-> fontsize,
                     ec |-> pp.edgecolor, fc |-> pp.gatecolor,
                     lw |-> pp.linewidth])

_oplus(a, x, y, pp) ==
    LET c == Draw(a, [prim |-> "circle", x |-> x, y |-> y, r |-> pp.not_radius,
                      ec |-> pp.edgecolor, fc |-> pp.gatecolor,
                      lw |-> pp.linewidth])
    IN _line(c, x, x, y - pp.not_radius, y + pp.not_radius, pp)

_cdot(a, x, y, pp) ==
    Draw(a, [prim |-> "circle", x |-> x, y |-> y,
             r |-> (pp.control_radius * pp.scale) \div 100,
             ec |-> pp.edgecolor, fc |-> pp.controlcolor, lw |-> pp.linewidth])

_swapx(a, x, y, pp) ==
    LET d == pp.swap_delta
    IN _line(_line(a, x - d, x + d, y - d, y + d, pp),
             x - d, x + d, y + d, y - d, pp)

_rectangle(a, x1, x2, y1, y2, plot_style) ==
    Draw(a, [prim |-> "rect", x |-> Min2(x1, x2), y |-> Min2(y1, y2),
             w |-> Abs(x2 - x1), h |-> Abs(y2 - y1),
             ec |-> plot_style.edgecolor, fc |-> plot_style.fillcolor,
             lw |-> plot_style.linewidth])

\* r"$|%s\rangle$" % label; inits is a list of ints, so no label is in it.
_render_label(label, inits) == "$|" \o label \o "\\rangle$"


\* for i, gate in _enumerate_gates(l, schedule): the pairs <<i, gate>> in the
\* order the generator yields them (i is the Python index).
RECURSIVE EnumSchedule(_, _)
EnumSchedule(l, k) ==
    IF k > Len(l) THEN <<>>
    ELSE [j \in 1..Len(l[k]) |-> <<k - 1, l[k][j]>>] \o EnumSchedule(l, k + 1)

_enumerate_gates(l, schedule) ==
    IF schedule THEN EnumSchedule(l, 1)
    ELSE [k \in 1..Len(l) |-> <<k - 1, l[k]>>]

\* gate[1:] and gate[2:]
Tail1(gate) == SubSeq(gate, 2, Len(gate))
Tail2(gate) == SubSeq(gate, 3, Len(gate))

\* One pass of the loop of _measured_wires over the pairs from position k on.
RECURSIVE MeasuredLoop(_, _, _, _)
MeasuredLoop(pairs, k, labels, m) ==
    IF k > Len(pairs) THEN [status |-> "ok", measured |-> m]
    ELSE LET i == pairs[k][1]
             name == pairs[k][2][1]
             target == pairs[k][2][2]
             j == _get_flipped_index(target, labels)
         IN IF j < 0 THEN [status |-> "ValueError", measured |-> m]
            ELSE MeasuredLoop(pairs, k + 1, labels,
                     IF StartsWithM(name) THEN Update(m, [w \in {j} |-> i])
                     ELSE m)

_measured_wires(l, labels, schedule) ==
    MeasuredLoop(_enumerate_gates(l, schedule), 1, labels, <<>>)

\* measured.get(index, 1000)
MeasuredDefault == 1000
MeasuredGet(measured, index) ==
    IF index \in DOMAIN measured THEN measured[index] ELSE MeasuredDefault

\* The glyph of one control at wire index ci; nm is the name after "DG" is cut.
ControlGlyph(a, symbols, nm, is_dagger, x, y, pp) ==
    IF nm = "SWAP" THEN _swapx(a, x, y, pp)
    ELSE IF nm \in BoxedControlNames
         THEN _text(a, x, y,
                    SymbolOf(symbols, nm)
                        \o (IF is_dagger THEN "$\\rm{^{\\dagger}}$" ELSE ""),
                    pp, TRUE)
         ELSE _cdot(a, x, y, pp)

RECURSIVE ControlsLoop(_, _, _, _, _, _, _, _)
ControlsLoop(a, symbols, name, control_indices, k, x, wire_grid, pp) ==
    IF k > Len(control_indices) \/ ~Ok(a) THEN a
    ELSE LET ci == control_indices[k]
         IN IF ~InGrid(wire_grid, ci) THEN Raise(a, "IndexError")
            ELSE ControlsLoop(
                     ControlGlyph(a, symbols, StripDG(name), EndsWithDG(name),
                                  x, At(wire_grid, ci), pp),
                     symbols, StripDG(name), control_indices, k + 1, x,
                     wire_grid, pp)

\* The test of _draw_controls for the second connector line.
IsMeasuredBefore(control_indices, measured, i) ==
    \E k \in 1..Len(control_indices) : MeasuredGet(measured, control_indices[k]) < i

\* The rectangle of a start barrier at column i.
BarrierRectangle_fromBarrier(a, i, name, min_wire, max_wire, gate_grid, wire_grid, pp) ==
    LET nfused == NFused(name)
    IN IF ~InGrid(gate_grid, i) \/ ~InGrid(gate_grid, i + nfused)
          \/ ~InGrid(wire_grid, min_wire) \/ ~InGrid(wire_grid, max_wire)
       THEN Raise(a, "IndexError")
       ELSE _rectangle(a, At(gate_grid, i) - 30, At(gate_grid, i + nfused) + 30,
                       At(wire_grid, min_wire) - 25, At(wire_grid, max_wire) + 25,
                       pp)

BarrierRectangle(a, i, name, min_wire, max_wire, gate_grid, wire_grid, pp) ==
    LET equal_qbits == HasEqual(name)
        nfused == NFused(name)
        dx_right == 30
        dx_left == 30
        dy == 25
    IN IF ~InGrid(gate_grid, i + 1) \/ ~InGrid(gate_grid, i + nfused)
          \/ ~InGrid(wire_grid, min_wire) \/ ~InGrid(wire_grid, max_wire)
       THEN Raise(a, "IndexError")
       ELSE _rectangle(a,
                At(gate_grid, i + 1) - dx_left,
                At(gate_grid, i + nfused) + dx_right,
                At(wire_grid, min_wire) - dy
                    - (IF ~equal_qbits THEN 0 ELSE 0 - (9 * pp.scale) \div 10),
                At(wire_grid, max_wire) + dy,
                pp)

_draw_controls(a, symbols, i, gate, labels, gate_grid, wire_grid, pp, measured) ==
    LET name == gate[1]
        target == gate[2]
        target_index == _get_flipped_index(target, labels)
        control_indices == _get_flipped_indices(Tail2(gate), labels)
        gate_indices == control_indices \o <<target_index>>
        min_wire == SetMin(Range(gate_indices))
        max_wire == SetMax(Range(gate_indices))
    IN IF ~Ok(a) \/ IsEndBarrier(name) THEN a
       ELSE IF \E k \in 1..Len(gate_indices) : gate_indices[k] < 0
            THEN Raise(a, "ValueError")
       ELSE IF IsStartBarrier(name)
            THEN BarrierRectangle(a, i, name, min_wire, max_wire, gate_grid,
                                  wire_grid, pp)
       ELSE IF ~InGrid(gate_grid, i) \/ ~InGrid(wire_grid, min_wire)
               \/ ~InGrid(wire_grid, max_wire)
            THEN Raise(a, "IndexError")
       ELSE LET x == At(gate_grid, i)
                one == _line(a, x, x, At(wire_grid, min_wire),
                             At(wire_grid, max_wire), pp)
                dy == 4
                two == IF IsMeasuredBefore(control_indices, measured, i)
                       THEN _line(one, x + dy, x + dy, At(wire_grid, min_wire),
                                  At(wire_grid, max_wire), pp)
                       ELSE one
            IN ControlsLoop(two, symbols, name, control_indices, 1, x,
                            wire_grid, pp)

_draw_target(a, symbols, i, gate, labels, gate_grid, wire_grid, pp) ==
    LET name0 == gate[1]
        target == gate[2]
        is_dagger == EndsWithDG(name0)
        name == StripDG(name0)
        symbol == SymbolOf(symbols, name)
                      \o (IF is_dagger THEN "$\\rm{^{\\dagger}}$" ELSE "")
        target_index == _get_flipped_index(target, labels)
    IN IF ~Ok(a) \/ IsStartBarrier(name0) \/ IsEndBarrier(name0) THEN a
       ELSE IF ~InGrid(gate_grid, i) THEN Raise(a, "IndexError")
       ELSE IF target_index < 0 THEN Raise(a, "ValueError")
       ELSE IF ~InGrid(wire_grid, target_index) THEN Raise(a, "IndexError")
       ELSE LET x == At(gate_grid, i)
                y == At(wire_grid, target_index)
            IN IF symbol = "" THEN a
               ELSE IF name \in {"CNOT", "TOFFOLI"} THEN _oplus(a, x, y, pp)
               ELSE IF name = "CPHASE" THEN _cdot(a, x, y, pp)
               ELSE IF name = "SWAP" THEN _swapx(a, x, y, pp)
               ELSE _text(a, x, y, symbol, pp, TRUE)

RECURSIVE DrawGatesLoop(_, _, _, _, _, _, _, _, _)
DrawGatesLoop(a, symbols, pairs, k, labels, gate_grid, wire_grid, pp, measured) ==
    IF k > Len(pairs) \/ ~Ok(a) THEN a
    ELSE LET i == pairs[k][1]
             gate == pairs[k][2]
             t == _draw_target(a, symbols, i, gate, labels, gate_grid,
                               wire_grid, pp)
             c == IF Len(gate) > 2
                  THEN _draw_controls(t, symbols, i, gate, labels, gate_grid,
                                      wire_grid, pp, measured)
                  ELSE t
         IN DrawGatesLoop(c, symbols, pairs, k + 1, labels, gate_grid,
                          wire_grid, pp, measured)

_draw_gates(a, symbols, l, labels, gate_grid, wire_grid, pp, measured, schedule) ==
    DrawGatesLoop(a, symbols, _enumerate_gates(l, schedule), 1, labels,
                  gate_grid, wire_grid, pp, measured)


\* The figure and its axes limits.  gate_grid[0] raises IndexError on an empty
\* grid (the plotting library may refuse the empty figure first).
_setup_figure(nq, ng, gate_grid, wire_grid, pp) ==
    LET scale == pp.scale
        offset == scale \div 2
    IN IF Len(gate_grid) = 0 \/ Len(wire_grid) = 0
       THEN Raise(NewAx, "IndexError")
       ELSE Draw(NewAx,
                [prim |-> "figure", w |-> ng * scale, h |-> nq * scale,
                 facecolor |-> pp.facecolor, edgecolor |-> pp.edgecolor,
                 xlim |-> <<At(gate_grid, 0) - offset,
                            gate_grid[Len(gate_grid)] + offset>>,
                 ylim |-> <<At(wire_grid, 0) - offset,
                            wire_grid[Len(wire_grid)] + offset>>])

\* One wire: the body of the loop of _draw_wires for index i.
DrawWire(a, i, gate_grid, wire_grid, pp) ==
    IF ~Ok(a) THEN a
    ELSE IF ~InGrid(wire_grid, i) \/ Len(gate_grid) = 0 THEN Raise(a, "IndexError")
    ELSE _line(a, At(gate_grid, 0) - pp.scale,
               gate_grid[Len(gate_grid)] + pp.scale,
               At(wire_grid, i), At(wire_grid, i), pp)

RECURSIVE DrawWiresLoop(_, _, _, _, _, _)
DrawWiresLoop(a, i, nq, gate_grid, wire_grid, pp) ==
    IF i >= nq THEN a
    ELSE DrawWiresLoop(DrawWire(a, i, gate_grid, wire_grid, pp), i + 1, nq,
                       gate_grid, wire_grid, pp)

_draw_wires(a, nq, gate_grid, wire_grid, pp) ==
    DrawWiresLoop(a, 0, nq, gate_grid, wire_grid, pp)

\* One label: the body of the loop of _draw_labels for index i.
DrawLabel(a, i, labels, inits, gate_grid, wire_grid, pp) ==
    LET j == _get_flipped_index(labels[i + 1], labels)
    IN IF ~Ok(a) THEN a
       ELSE IF Len(gate_grid) = 0 \/ ~InGrid(wire_grid, j) THEN Raise(a, "IndexError")
       ELSE _text(a, (At(gate_grid, 0) - pp.scale) - pp.label_buffer,
                  At(wire_grid, j), _render_label(labels[i + 1], inits), pp,
                  FALSE)

RECURSIVE DrawLabelsLoop(_, _, _, _, _, _, _)
DrawLabelsLoop(a, i, labels, inits, gate_grid, wire_grid, pp) ==
    IF i >= Len(labels) THEN a
    ELSE DrawLabelsLoop(DrawLabel(a, i, labels, inits, gate_grid, wire_grid, pp),
                        i + 1, labels, inits, gate_grid, wire_grid, pp)

_draw_labels(a, labels, inits, gate_grid, wire_grid, pp) ==
    DrawLabelsLoop(a, 0, labels, inits, gate_grid, wire_grid, pp)

\* for label in gate[1:]: if label not in labels: labels.append(label)
AppendNew_noCheck(labels, fields, k) == labels \o fields

RECURSIVE AppendNew(_, _, _)
AppendNew(labels, fields, k) ==
    IF k > Len(fields) THEN labels
    ELSE AppendNew(IF fields[k] \in Range(labels) THEN labels
                   ELSE Append(labels, fields[k]),
                   fields, k + 1)

RECURSIVE InferLoop(_, _, _)
InferLoop(pairs, k, labels) ==
    IF k > Len(pairs) THEN labels
    ELSE InferLoop(pairs, k + 1, AppendNew(labels, Tail1(pairs[k][2]), 1))

\* if not labels: the labels of the gates in first-seen order.
InferLabels(l, labels, schedule) ==
    IF Len(labels) = 0 THEN InferLoop(_enumerate_gates(l, schedule), 1, <<>>)
    ELSE labels

\* The body shared by _plot_quantum_schedule (schedule = TRUE) and
\* _plot_quantum_circuit (schedule = FALSE): the dict after the update, the
\* locals, and the surface when the function returns or raises.
PlotQuantum(pp0, symbols, l, inits, labels0, plot_labels, kwargs, schedule) ==
    LET pp == Update(pp0, kwargs)
        scale == pp.scale
        labels == InferLabels(l, labels0, schedule)
        nq == Len(labels)
        nt == Len(l)
        wire_grid == Arange(0, nq * scale, scale)
        gate_grid == Arange(0, nt * scale, scale)
        a0 == _setup_figure(nq, nt, gate_grid, wire_grid, pp)
        m == _measured_wires(l, labels, schedule)
        a1 == IF Ok(a0) /\ m.status # "ok" THEN Raise(a0, m.status) ELSE a0
        a2 == _draw_wires(a1, nq, gate_grid, wire_grid, pp)
        a3 == IF plot_labels
              THEN _draw_labels(a2, labels, inits, gate_grid, wire_grid, pp)
              ELSE a2
        a4 == _draw_gates(a3, symbols, l, labels, gate_grid, wire_grid, pp,
                          m.measured, schedule)
    IN [plot_params |-> pp, ax |-> a4, labels |-> labels,
        wire_grid |-> wire_grid, gate_grid |-> gate_grid,
        measured |-> m.measured]

_plot_quantum_schedule(pp0, symbols, schedule, inits, labels, plot_labels, kwargs) ==
    PlotQuantum(pp0, symbols, schedule, inits, labels, plot_labels, kwargs, TRUE)

_plot_quantum_circuit(pp0, symbols, gates, inits, labels, plot_labels, kwargs) ==
    PlotQuantum(pp0, symbols, gates, inits, labels, plot_labels, kwargs, FALSE)

-----------------------------------------------------------------------------
(* The clusterer. *)

\* item[1] in [tup[1] for tup in temp_gates]
TargetIn(item, temp_gates) ==
    \E k \in 1..Len(temp_gates) : temp_gates[k][2] = item[2]

NonEmpty(bucket) == IF Len(bucket) > 0 THEN <<bucket>> ELSE <<>>

CloseBuckets_measuredFirst(temp_gates, temp_mgates) ==
    NonEmpty(temp_mgates) \o NonEmpty(temp_gates)

\* Lines 528-534: at a tuple of more than two fields the open buckets are
\* appended, temp_gates first.
CloseBuckets(temp_gates, temp_mgates) ==
    NonEmpty(temp_gates) \o NonEmpty(temp_mgates)

RECURSIVE ClusterLoop(_, _, _, _, _)
ClusterLoop(items, k, temp_gates, temp_mgates, cluster_gates) ==
    IF k > Len(items)
    THEN cluster_gates \o NonEmpty(temp_gates) \o NonEmpty(temp_mgates)
    ELSE LET item == items[k]
         IN IF Len(item) = 2
            THEN IF item[1] = "MEASURE"
                 THEN ClusterLoop(items, k + 1, temp_gates,
                                  Append(temp_mgates, item), cluster_gates)
                 ELSE IF Len(temp_gates) > 0 /\ TargetIn(item, temp_gates)
                      THEN ClusterLoop(items, k + 1, <<item>>, temp_mgates,
                                       Append(cluster_gates, temp_gates))
                      ELSE ClusterLoop(items, k + 1, Append(temp_gates, item),
                                       temp_mgates, cluster_gates)
            ELSE ClusterLoop(items, k + 1, <<>>, <<>>,
                             cluster_gates \o CloseBuckets(temp_gates, temp_mgates)
                                 \o <<(<<item>>)>>)

_make_cluster_gates(gates_items) == ClusterLoop(gates_items, 1, <<>>, <<>>, <<>>)


-----------------------------------------------------------------------------
(* Gate objects of a circuit, and the flattener. *)

\* A gate object: its name as qibo gives it (lower case), its qubits, the
\* label qibo draws it with, and, for a fused gate, the gates it holds.
Gate(name, targets, controls, draw_label) ==
    [name |-> name, _target_qubits |-> targets, _control_qubits |-> controls,
     draw_label |-> draw_label, fused |-> FALSE, gates |-> <<>>]

GateH(q) == Gate("h", <<q>>, <<>>, "H")
GateM(q) == Gate("measure", <<q>>, <<>>, "M")
GateCNOT(c, t) == Gate("cx", <<t>>, <<c>>, "X")

\* A FusedGate over the gates it fuses (isinstance(gate, gates.FusedGate)).
FusedGate(inner) ==
    [name |-> "fused", _target_qubits |-> <<>>, _control_qubits |-> <<>>,
     draw_label |-> "", fused |-> TRUE, gates |-> inner]

\* The barrier gates of FusedGateBarrier: the name carries the count and the
\* flag, the control qubit is q_ctrl and the target qubit is q_trgt.
FusedStartGateBarrier(q_ctrl, q_trgt, nfused, equal_qbits) ==
    Gate("FusedStartGateBarrier" \o ToString(nfused)
             \o (IF equal_qbits THEN "@EQUAL" ELSE ""),
         <<q_trgt>>, <<q_ctrl>>, "")

FusedEndGateBarrier(q_ctrl, q_trgt) ==
    Gate("FusedEndGateBarrier", <<q_trgt>>, <<q_ctrl>>, "")

\* gate.name.upper(), over the names of the model.
UpperName(name) ==
    CASE name = "h" -> "H"
      [] name = "measure" -> "MEASURE"
      [] name = "cx" -> "CX"
      [] name = "ccx" -> "CCX"
      [] name = "id" -> "ID"
      [] name = "cz" -> "CZ"
      [] name = "FusedEndGateBarrier" -> EndBarrierName
      [] OTHER ->
           LET ke == CHOOSE p \in FusedCounts \X BOOLEAN :
                         name = "FusedStartGateBarrier" \o ToString(p[1])
                                    \o (IF p[2] THEN "@EQUAL" ELSE "")
           IN StartBarrierName(ke[1], ke[2])

\* The names _process_gates fans out into one tuple per target qubit.
BroadcastNames ==
    {"ID", "MEASURE", "KRAUSCHANNEL", "UNITARYCHANNEL", "DEPOLARIZINGCHANNEL",
     "READOUTERRORCHANNEL"}

LabelsOfQubits(qs) == [k \in 1..Len(qs) |-> Label(qs[k])]

\* "C" in init_label[0], over the names of the model.
StartsWithC(name) == name \in {"CNOT", "CZ", "CPHASE"}

\* The tuples of one gate, given what _check_list_str returned for its name.
\* (Draw labels are upper case already; no gate of the model is named
\* ENTANGLEMENTENTROPY, whose branch reads the undefined name circuit.)
ProcessGate(gate, is_sx) ==
    LET upper == UpperName(gate.name)
        l1 == IF upper = "CCX" THEN "TOFFOLI" ELSE upper
        l2 == IF l1 = "CX" THEN "CNOT" ELSE l1
        l3 == IF is_sx
              THEN IF EndsWithDG(l2) THEN "$\\rm{\\sqrt{X}}^{\\dagger}$"
                   ELSE "$\\rm{\\sqrt{X}}$"
              ELSE l2
        init_label == IF Len(gate._control_qubits) > 0 /\ StartsWithC(l3)
                         /\ l3 # "CNOT"
                      THEN gate.draw_label ELSE l3
    IN IF init_label \in BroadcastNames
       THEN [k \in 1..Len(gate._target_qubits) |->
                <<init_label, Label(gate._target_qubits[k])>>]
       ELSE <<(<<init_label>> \o LabelsOfQubits(gate._target_qubits)
                   \o LabelsOfQubits(gate._control_qubits))>>

\* The loop of _process_gates: it ends at the first gate, where
\* _check_list_str raises.
RECURSIVE ProcessLoop(_, _, _)
ProcessLoop(array_gates, k, gates_plot) ==
    IF k > Len(array_gates) THEN [status |-> "ok", gates_plot |-> gates_plot]
    ELSE LET chk == _check_list_str(<<"SX", "CSX">>, UpperName(array_gates[k].name))
         IN IF chk.raises # ""
            THEN [status |-> chk.raises, gates_plot |-> gates_plot]
            ELSE ProcessLoop(array_gates, k + 1,
                     gates_plot \o ProcessGate(array_gates[k], chk.value))

_process_gates(array_gates) == ProcessLoop(array_gates, 1, <<>>)

\* min and max over the control and target qubits of the fused gates; min()
\* of nothing raises ValueError.
_get_min_max_qbits(gate) ==
    LET qs == UNION {Range(gate.gates[k]._control_qubits)
                         \cup Range(gate.gates[k]._target_qubits) :
                     k \in 1..Len(gate.gates)}
    IN IF qs = {} THEN [status |-> "ValueError", min_q |-> 0, max_q |-> 0]
       ELSE [status |-> "ok", min_q |-> SetMin(qs), max_q |-> SetMax(qs)]

\* The gates plot puts in all_gates for one fused gate of the queue.
FlattenFused(gate, cluster_gates) ==
    LET mm == _get_min_max_qbits(gate)
        pg == _process_gates(gate.gates)
        fgates == IF cluster_gates THEN _make_cluster_gates(pg.gates_plot)
                  ELSE pg.gates_plot
        equal_qbits == mm.min_q = mm.max_q
        l_gates == IF ~equal_qbits THEN Len(fgates) ELSE Len(gate.gates)
        max_q == IF ~equal_qbits THEN mm.max_q ELSE mm.max_q + 1
    IN IF mm.status # "ok" THEN [status |-> mm.status, gates |-> <<>>]
       ELSE IF pg.status # "ok" THEN [status |-> pg.status, gates |-> <<>>]
       ELSE [status |-> "ok",
             gates |-> <<FusedStartGateBarrier(mm.min_q, max_q, l_gates, equal_qbits)>>
                           \o gate.gates
                           \o <<FusedEndGateBarrier(mm.min_q, max_q)>>]

\* The loop of plot over circuit.queue that fills all_gates.
RECURSIVE FlattenLoop(_, _, _, _)
FlattenLoop(queue, k, cluster_gates, all_gates) ==
    IF k > Len(queue) THEN [status |-> "ok", gates |-> all_gates]
    ELSE IF queue[k].fused
         THEN LET f == FlattenFused(queue[k], cluster_gates)
              IN IF f.status # "ok" THEN [status |-> f.status, gates |-> all_gates]
                 ELSE FlattenLoop(queue, k + 1, cluster_gates, all_gates \o f.gates)
         ELSE FlattenLoop(queue, k + 1, cluster_gates, Append(all_gates, queue[k]))

-----------------------------------------------------------------------------
(* plot, one step at a time.  G holds the module's dicts, T one call: its   *)
(* place in the code, its arguments and locals, its drawing surface.  files *)
(* holds what symbols.json and styles.json contain.                         *)

\* The style argument: None, a dict, or the name of a style.
StyleNone == [kind |-> "none", value |-> <<>>]
StyleDict(d) == [kind |-> "dict", value |-> d]
StyleName(nm) == [kind |-> "name", value |-> [name |-> nm]]

\* Lines 641-649: the dict plot merges into plot_params.
StyleUpdate(style, STYLE0) ==
    IF style.kind = "dict" THEN style.value
    ELSE IF style.kind = "name" /\ style.value.name \in DOMAIN STYLE0
         THEN STYLE0[style.value.name]
         ELSE STYLE0["default"]

\* The qubit labels plot builds for a circuit of n qubits.
PlotLabels(n) == [k \in 1..n |-> Label(k - 1)]

\* Lines 657-695 for a circuit with instructions: all_gates, gates_plot, and
\* the call of _plot_quantum_schedule or _plot_quantum_circuit.
PlotGatesEnd(G, T, f, g, r) ==
    IF f.status # "ok"
    THEN [g |-> G,
          t |-> [T EXCEPT !.pc = "done", !.ax = Raise(NewAx, f.status)]]
    ELSE IF g.status # "ok"
    THEN [g |-> G,
          t |-> [T EXCEPT !.pc = "done", !.ax = Raise(NewAx, g.status),
                          !.frame.all_gates = f.gates]]
    ELSE [g |-> [G EXCEPT !.plot_params = r.plot_params],
          t |-> [T EXCEPT !.pc = "done", !.ax = r.ax,
                          !.frame.all_gates = f.gates,
                          !.frame.gates_plot = g.gates_plot,
                          !.frame.wire_grid = r.wire_grid,
                          !.frame.gate_grid = r.gate_grid]]

PlotGatesDraw(G, T, g) ==
    PlotQuantum(G.plot_params, G.SYMBOLS,
                IF T.frame.cluster_gates THEN _make_cluster_gates(g.gates_plot)
                ELSE g.gates_plot,
                T.frame.inits, T.frame.labels, TRUE, [scale |-> T.frame.scale],
                T.frame.cluster_gates)

PlotGatesProcess(G, T, f) ==
    \* line 687, then lines 689-695
    LET P(g) == PlotGatesEnd(G, T, f, g, PlotGatesDraw(G, T, g))
    IN P(_process_gates(f.gates))

PlotGates(G, T) ==
    \* lines 659-685
    LET P(f) == PlotGatesProcess(G, T, f)
    IN P(FlattenLoop(T.frame.circuit.queue, 1, T.frame.cluster_gates, <<>>))

\* Lines 631-639: the two files are read into SYMBOLS and STYLE.
PlotLoad(G, T, files) ==
    [g |-> [G EXCEPT !.SYMBOLS = Update(@, files.symbols),
                     !.STYLE = Update(@, files.styles)],
     t |-> [T EXCEPT !.pc = "style"]]

\* Lines 641-649.
PlotStyle(G, T) ==
    [g |-> [G EXCEPT !.plot_params = Update(@, StyleUpdate(T.frame.style, G.STYLE))],
     t |-> [T EXCEPT !.pc = "labels"]]

\* Lines 651-657.
PlotInitsLabels(G, T) ==
    [g |-> G,
     t |-> [T EXCEPT
              !.frame.inits = [k \in 1..T.frame.circuit.nqubits |-> k - 1],
              !.frame.labels = PlotLabels(T.frame.circuit.nqubits),
              !.pc = IF Len(T.frame.circuit.queue) > 0 THEN "gates"
                     ELSE "lines_update"]]

\* _plot_lines_circuit, line 124.
LinesUpdate(G, T) ==
    [g |-> [G EXCEPT !.plot_params = Update(@, [scale |-> T.frame.scale])],
     t |-> [T EXCEPT !.pc = "lines_scale"]]

\* _plot_lines_circuit, lines 125-130.
LinesScale(G, T) ==
    LET scale == G.plot_params.scale
        nq == Len(T.frame.labels)
    IN [g |-> G,
        t |-> [T EXCEPT !.frame.lscale = scale,
                        !.frame.nq = nq,
                        !.frame.wire_grid = Arange(0, nq * scale, scale),
                        !.frame.gate_grid = Arange(0, nq * scale, scale),
                        !.pc = "setup_figure"]]

\* _plot_lines_circuit, line 132.
LinesSetupFigure(G, T) ==
    LET fr == T.frame
        a == _setup_figure(fr.nq, fr.nq, fr.gate_grid, fr.wire_grid,
                           G.plot_params)
    IN [g |-> G,
        t |-> [T EXCEPT !.ax = a,
                        !.frame.i = 0,
                        !.pc = IF Ok(a) THEN "draw_wires" ELSE "done"]]

\* _plot_lines_circuit, line 134: one pass of the loop of _draw_wires; the
\* scale is read on entry, the line's colour and width when it is drawn.
LinesDrawWires(G, T) ==
    LET fr == T.frame
        wscale == IF fr.i = 0 THEN G.plot_params.scale ELSE fr.wscale
        a == DrawWire(T.ax, fr.i, fr.gate_grid, fr.wire_grid,
                      [G.plot_params EXCEPT !.scale = wscale])
    IN [g |-> G,
        t |-> [T EXCEPT !.ax = a,
                        !.frame.wscale = wscale,
                        !.frame.i = fr.i + 1,
                        !.pc = IF ~Ok(a) THEN "done"
                               ELSE IF fr.i + 1 >= fr.nq THEN "draw_labels"
                               ELSE "draw_wires"]]

\* _plot_lines_circuit, lines 136-139.
LinesDrawLabels(G, T) ==
    [g |-> G,
     t |-> [T EXCEPT !.ax = _draw_labels(T.ax, T.frame.labels, T.frame.inits,
                                T.frame.gate_grid, T.frame.wire_grid,
                                G.plot_params),
                     !.pc = "done"]]

\* The step of plot at T.pc.
PlotStep(G, T, files) ==
    CASE T.pc = "load" -> PlotLoad(G, T, files)
      [] T.pc = "style" -> PlotStyle(G, T)
      [] T.pc = "labels" -> PlotInitsLabels(G, T)
      [] T.pc = "gates" -> PlotGates(G, T)
      [] T.pc = "lines_update" -> LinesUpdate(G, T)
      [] T.pc = "lines_scale" -> LinesScale(G, T)
      [] T.pc = "setup_figure" -> LinesSetupFigure(G, T)
      [] T.pc = "draw_wires" -> LinesDrawWires(G, T)
      [] T.pc = "draw_labels" -> LinesDrawLabels(G, T)

\* A call of plot(circuit, scale, cluster_gates, style) as it starts.
StartCall(args) ==
    [pc |-> "load",
     frame |-> [circuit |-> args.circuit, scale |-> args.scale,
                cluster_gates |-> args.cluster_gates, style |-> args.style,
                inits |-> <<>>, labels |-> <<>>, lscale |-> 0, wscale |-> 0,
                nq |-> 0, wire_grid |-> <<>>, gate_grid |-> <<>>, i |-> 0,
                all_gates |-> <<>>, gates_plot |-> <<>>],
     ax |-> NewAx]

ArgsOf(fr) ==
    [circuit |-> fr.circuit, scale |-> fr.scale,
     cluster_gates |-> fr.cluster_gates, style |-> fr.style]

\* The call run alone to its end.
RECURSIVE RunToEnd(_, _, _)
RunToEnd(G, T, files) ==
    IF T.pc = "done" THEN [g |-> G, t |-> T]
    ELSE LET r == PlotStep(G, T, files) IN RunToEnd(r.g, r.t, files)

\* The module's dicts when the module has just been imported.
FreshModule == [plot_params |-> InitialPlotParams, STYLE |-> <<>>, SYMBOLS |-> <<>>]

\* The surface of plot(args) as the first call of a process.
FreshRun(args, files) == RunToEnd(FreshModule, StartCall(args), files).t.ax

-----------------------------------------------------------------------------
(* Inputs of the direct calls. *)

Qubits == 0..(MaxQubits - 1)

\* Gate tuples as _process_gates shapes them: (name, target, control...).
SingleTuples == {<<nm, Label(q)>> : nm \in {"H", "MEASURE"}, q \in Qubits}
CnotTuples ==
    {<<"CNOT", Label(tc[1]), Label(tc[2])>> :
        tc \in {p \in Qubits \X Qubits : p[1] # p[2]}}
GateTuples == SingleTuples \cup CnotTuples

SeqsUpTo(S, n) == UNION {[1..k -> S] : k \in 0..n}

\* The tuples given to the clusterer: the gate tuples and a barrier tuple.
ClusterTuples ==
    GateTuples \cup {<<StartBarrierName(1, FALSE), Label(1), Label(0)>>}

ItemSeqs == SeqsUpTo(ClusterTuples, MaxItems)

\* The variables of the plot calls, where only helpers are called.
NoCall == [status |-> "none"]

HelperOnly ==
    /\ STYLE = <<>>
    /\ SYMBOLS = <<>>
    /\ styles_json = <<>>
    /\ pc = <<>>
    /\ frame = <<>>
    /\ ax = <<>>
    /\ last = NoCall
    /\ budget = <<>>

HelperVars == <<STYLE, SYMBOLS, styles_json, pc, frame, ax, last, budget>>

-----------------------------------------------------------------------------
(* SpecCluster: _make_cluster_gates applied to every short tuple sequence. *)

InitCluster ==
    /\ HelperOnly
    /\ plot_params = InitialPlotParams
    /\ \E items \in ItemSeqs : h = [fn |-> "input", in |-> items, out |-> <<>>]

CallMakeClusterGates ==
    /\ h.fn = "input"
    /\ h' = [fn |-> "_make_cluster_gates", in |-> h.in,
             out |-> _make_cluster_gates(h.in)]
    /\ UNCHANGED <<plot_params, HelperVars>>

NextCluster == CallMakeClusterGates

SpecCluster == InitCluster /\ [][NextCluster]_vars

\* The labels of a gate tuple: its target and its controls.
LabelsOf(gate) == Range(Tail1(gate))

NoSharedLabel(cluster) ==
    \A a \in 1..Len(cluster), b \in 1..Len(cluster) :
        a < b => LabelsOf(cluster[a]) \cap LabelsOf(cluster[b]) = {}

NoMeasureMix(cluster) ==
    ~ /\ \E a \in 1..Len(cluster) : cluster[a][1] = "MEASURE"
      /\ \E b \in 1..Len(cluster) : cluster[b][1] # "MEASURE"

\* C2: every cluster _make_cluster_gates returns has no two tuples that share
\* a target or control label, and does not mix a MEASURE tuple with a
\* non-MEASURE tuple.
C2_ClusterInvariant ==
    h.fn = "_make_cluster_gates" =>
        \A c \in 1..Len(h.out) : NoSharedLabel(h.out[c]) /\ NoMeasureMix(h.out[c])

\* The tuples of clusters a..b, one after the other.
RECURSIVE Concat(_)
Concat(clusters) ==
    IF clusters = <<>> THEN <<>> ELSE Head(clusters) \o Concat(Tail(clusters))

\* How often each tuple occurs in a sequence.
SeqBag(s) == [x \in Range(s) |-> Cardinality({k \in DOMAIN s : s[k] = x})]

IsMeasureTuple(t) == t[1] = "MEASURE"
IsGateTuple(t) == t[1] # "MEASURE"
IsForcedBreak(t) == Len(t) > 2

\* The two-field tuples between the forced break before position k (or the
\* start) and position k.
OpenSegment(items, k) ==
    LET j == SetMax({0} \cup {i \in 1..(k - 1) : IsForcedBreak(items[i])})
    IN SubSeq(items, j + 1, k - 1)

IsSuffix(s, t) ==
    Len(s) <= Len(t) /\ s = SubSeq(t, Len(t) - Len(s) + 1, Len(t))

\* At cluster c, the place of the forced break items[k], the buckets were
\* closed just before it: the gate bucket, then the measurement bucket.
BucketsClosedInOrder(items, k, out, c) ==
    LET seg == OpenSegment(items, k)
        M == SelectSeq(seg, IsMeasureTuple)
        G == SelectSeq(seg, IsGateTuple)
        g == IF M # <<>> THEN c - 2 ELSE c - 1
    IN /\ M # <<>> => (c > 1 /\ out[c - 1] = M)
       /\ G # <<>> => (g >= 1 /\ out[g] # <<>> /\ IsSuffix(out[g], G))

\* C11: every tuple of more than two fields is a cluster of its own; the
\* tuples before it in the input are all in earlier clusters, the tuples
\* after it are all in later clusters, and the buckets open when it is met
\* are closed just before it, the gate bucket before the measurement bucket.
C11_ForcedBreak ==
    h.fn = "_make_cluster_gates" =>
        \A k \in 1..Len(h.in) :
            IsForcedBreak(h.in[k]) =>
                \E c \in 1..Len(h.out) :
                    /\ h.out[c] = <<h.in[k]>>
                    /\ SeqBag(Concat(SubSeq(h.out, 1, c - 1)))
                           = SeqBag(SubSeq(h.in, 1, k - 1))
                    /\ SeqBag(Concat(SubSeq(h.out, c + 1, Len(h.out))))
                           = SeqBag(SubSeq(h.in, k + 1, Len(h.in)))
                    /\ BucketsClosedInOrder(h.in, k, h.out, c)

\* A measurement, then a gate, then a forced break: both buckets are open
\* when the break is met, and the gate's cluster comes first.
C11_Witness ==
    /\ h.fn = "_make_cluster_gates"
    /\ Len(h.in) = 3
    /\ IsMeasureTuple(h.in[1])
    /\ Len(h.in[2]) = 2 /\ IsGateTuple(h.in[2])
    /\ IsForcedBreak(h.in[3])
    /\ h.out = <<(<<h.in[2]>>), (<<h.in[1]>>), (<<h.in[3]>>)>>

\* The places <<cluster, position>> of the returned clusters.
ClusterPlaces(out) ==
    UNION {{<<c, q>> : q \in 1..Len(out[c])} : c \in 1..Len(out)}

\* The ways to say where each input tuple went: every input position gets a
\* place of its own that holds its tuple.
Placements(items, out) ==
    {f \in [1..Len(items) -> ClusterPlaces(out)] :
        /\ \A a \in 1..Len(items), b \in 1..Len(items) : f[a] = f[b] => a = b
        /\ \A k \in 1..Len(items) : out[f[k][1]][f[k][2]] = items[k]}

\* C13: the clusters hold every input tuple exactly once, and of two input
\* tuples that share a qubit label the earlier one is in a strictly earlier
\* cluster.
C13_OrderPerQubit ==
    h.fn = "_make_cluster_gates" =>
        /\ Cardinality(ClusterPlaces(h.out)) = Len(h.in)
        /\ \E f \in Placements(h.in, h.out) :
               \A a \in 1..Len(h.in), b \in 1..Len(h.in) :
                   (a < b /\ LabelsOf(h.in[a]) \cap LabelsOf(h.in[b]) # {})
                       => f[a][1] < f[b][1]


-----------------------------------------------------------------------------
(* SpecLabels: _plot_quantum_schedule and _plot_quantum_circuit called with *)
(* every short tuple list, with and without a label list.                   *)

\* The tuple lists of the label calls: 1..MaxItems tuples, of a one-qubit gate
\* on any qubit, a measurement of q_0, or a CNOT between neighbouring qubits.
LabelTuples ==
    {<<"H", Label(q)>> : q \in Qubits} \cup {<<"MEASURE", Label(0)>>}
        \cup {<<"CNOT", Label(q), Label((q + 1) % MaxQubits)>> : q \in Qubits}

LabelInputs == SeqsUpTo(LabelTuples, MaxItems) \ {<<>>}

InitLabels ==
    /\ HelperOnly
    /\ plot_params = InitialPlotParams
    /\ \E items \in LabelInputs :
           h = [fn |-> "input", in |-> [l |-> items], out |-> <<>>]

\* The call as plot makes it (labels = q_0.., plot_labels = True) and as a
\* caller may make it (labels = [], plot_labels = False).
CallPlotQuantum(schedule, with_labels, plot_labels, scale) ==
    LET l == IF schedule THEN _make_cluster_gates(h.in.l) ELSE h.in.l
        labels == IF with_labels THEN PlotLabels(MaxQubits) ELSE <<>>
        inits == [k \in 1..MaxQubits |-> k - 1]
        r == IF schedule
             THEN _plot_quantum_schedule(plot_params, SYMBOLS, l, inits, labels,
                                         plot_labels, [scale |-> scale])
             ELSE _plot_quantum_circuit(plot_params, SYMBOLS, l, inits, labels,
                                        plot_labels, [scale |-> scale])
    IN /\ h.fn = "input"
       /\ h' = [fn |-> IF schedule THEN "_plot_quantum_schedule"
                       ELSE "_plot_quantum_circuit",
                in |-> [l |-> l, schedule |-> schedule, labels |-> labels,
                        plot_labels |-> plot_labels, scale |-> scale],
                out |-> [labels |-> r.labels, wire_grid |-> r.wire_grid,
                         gate_grid |-> r.gate_grid, measured |-> r.measured,
                         ax |-> r.ax]]
       /\ plot_params' = r.plot_params
       /\ UNCHANGED HelperVars

CallPlotQuantumSchedule ==
    \E with_labels \in BOOLEAN, plot_labels \in BOOLEAN, scale \in ScaleValues :
        CallPlotQuantum(TRUE, with_labels, plot_labels, scale)

CallPlotQuantumCircuit ==
    \E with_labels \in BOOLEAN, plot_labels \in BOOLEAN, scale \in ScaleValues :
        CallPlotQuantum(FALSE, with_labels, plot_labels, scale)

NextLabels == CallPlotQuantumSchedule \/ CallPlotQuantumCircuit

SpecLabels == InitLabels /\ [][NextLabels]_vars

PlotQuantumDone == h.fn \in {"_plot_quantum_schedule", "_plot_quantum_circuit"}

\* C4: for a label list L of n distinct labels and a positive scale, the wire
\* coordinate of the label at list index i is (n-1-i)*scale, and it strictly
\* decreases as i grows.
C4_WireCoordinate ==
    PlotQuantumDone =>
        LET L == h.out.labels
            n == Len(L)
            y(i) == At(h.out.wire_grid, _get_flipped_index(L[i + 1], L))
        IN \A i \in 0..(n - 1) :
               /\ InGrid(h.out.wire_grid, _get_flipped_index(L[i + 1], L))
               /\ y(i) = (n - 1 - i) * h.in.scale
               /\ (i + 1 < n => y(i) > y(i + 1))

\* A CNOT on the first label of two was drawn: its circle sits on the top wire.
C4_Witness ==
    /\ PlotQuantumDone
    /\ Len(h.out.labels) >= 2
    /\ h.in.l[1] = IF h.in.schedule
                   THEN <<(<<"CNOT", h.out.labels[1], h.out.labels[2]>>)>>
                   ELSE <<"CNOT", h.out.labels[1], h.out.labels[2]>>
    /\ \E k \in 1..Len(h.out.ax.canvas) :
           /\ h.out.ax.canvas[k].prim = "circle"
           /\ h.out.ax.canvas[k].y = (Len(h.out.labels) - 1) * h.in.scale

\* The places of a label in the tuples: <<column, tuple, field>>, in the order
\* columns, tuples of a column, fields of a tuple.
Columns(l, schedule) == IF schedule THEN l ELSE [k \in 1..Len(l) |-> <<l[k]>>]

PlacesOf(x, cols) ==
    {p \in UNION {UNION {{<<c, t, f>> : f \in 2..Len(cols[c][t])} :
                         t \in 1..Len(cols[c])} : c \in 1..Len(cols)} :
        cols[p[1]][p[2]][p[3]] = x}

Before(p, q) ==
    \/ p[1] < q[1]
    \/ p[1] = q[1] /\ p[2] < q[2]
    \/ p[1] = q[1] /\ p[2] = q[2] /\ p[3] < q[3]

FirstPlace(x, cols) ==
    CHOOSE p \in PlacesOf(x, cols) :
        \A q \in PlacesOf(x, cols) : p = q \/ Before(p, q)

Referenced(cols) ==
    UNION {UNION {LabelsOf(cols[c][t]) : t \in 1..Len(cols[c])} :
               c \in 1..Len(cols)}

\* C5: called with no labels, the inferred label list holds each referenced
\* label exactly once, is as long as the number of distinct labels, and is in
\* first-occurrence order.
C5_LabelInference ==
    (PlotQuantumDone /\ h.in.labels = <<>>) =>
        LET L == h.out.labels
            cols == Columns(h.in.l, h.in.schedule)
        IN /\ Range(L) = Referenced(cols)
           /\ Len(L) = Cardinality(Referenced(cols))
           /\ \A i \in 1..Len(L), j \in 1..Len(L) :
                  i < j => Before(FirstPlace(L[i], cols), FirstPlace(L[j], cols))

\* Labels were inferred from a column of two tuples, the later label first.
C5_Witness ==
    /\ PlotQuantumDone
    /\ h.in.labels = <<>>
    /\ h.in.schedule
    /\ Len(h.in.l[1]) >= 2
    /\ Len(h.in.l) >= 2
    /\ Len(h.out.labels) >= 2
    /\ h.out.labels[1] = Label(1)


-----------------------------------------------------------------------------
(* SpecControls: _measured_wires and then _draw_controls, called on every   *)
(* short schedule of one-tuple columns with the grids of                    *)
(* _plot_quantum_schedule.                                                   *)

\* Barrier tuples as plot hands them on: (name, q_max, q_min).
BarrierTuples ==
    {<<StartBarrierName(k, e), Label(1), Label(0)>> :
        k \in 1..MaxFused, e \in BOOLEAN}
        \cup {<<EndBarrierName, Label(1), Label(0)>>}

ControlTuples ==
    {<<"MEASURE", Label(q)>> : q \in Qubits}
        \cup {<<"CNOT", Label(1), Label(0)>>, <<"CNOT", Label(0), Label(1)>>}
        \cup BarrierTuples

\* Schedules of 1..MaxColumns columns, one tuple in each.
ScheduleInputs ==
    UNION {{[c \in DOMAIN s |-> <<s[c]>>] : s \in [1..k -> ControlTuples]} :
               k \in 1..MaxColumns}

InitControls ==
    /\ HelperOnly
    /\ plot_params = InitialPlotParams
    /\ \E l \in ScheduleInputs :
           h = [fn |-> "input", in |-> [l |-> l], out |-> <<>>]

CallMeasuredWires ==
    \E scale \in ScaleValues :
        LET labels == PlotLabels(MaxQubits)
            m == _measured_wires(h.in.l, labels, TRUE)
        IN /\ h.fn = "input"
           /\ h' = [fn |-> "_measured_wires",
                    in |-> [l |-> h.in.l, labels |-> labels, scale |-> scale,
                            wire_grid |-> Arange(0, Len(labels) * scale, scale),
                            gate_grid |-> Arange(0, Len(h.in.l) * scale, scale)],
                    out |-> m]
           /\ UNCHANGED <<plot_params, HelperVars>>

\* _draw_controls for one tuple of the schedule, as _draw_gates calls it.
CallDrawControls ==
    \E k \in 1..Len(_enumerate_gates(h.in.l, TRUE)) :
        LET pair == _enumerate_gates(h.in.l, TRUE)[k]
            pp == Update(plot_params, [scale |-> h.in.scale])
        IN /\ h.fn = "_measured_wires"
           /\ h.out.status = "ok"
           /\ Len(pair[2]) > 2
           /\ h' = [fn |-> "_draw_controls",
                    in |-> [l |-> h.in.l, labels |-> h.in.labels,
                            scale |-> h.in.scale, wire_grid |-> h.in.wire_grid,
                            gate_grid |-> h.in.gate_grid, i |-> pair[1],
                            gate |-> pair[2], measured |-> h.out.measured],
                    out |-> _draw_controls(NewAx, SYMBOLS, pair[1], pair[2],
                                h.in.labels, h.in.gate_grid, h.in.wire_grid, pp,
                                h.out.measured)]
           /\ UNCHANGED <<plot_params, HelperVars>>

NextControls == CallMeasuredWires \/ CallDrawControls

SpecControls == InitControls /\ [][NextControls]_vars

DrewControls == h.fn = "_draw_controls"

\* The columns whose position lies within the horizontal extent of rectangle r.
ColumnsCovered(r, gate_grid) ==
    {c \in 0..(Len(gate_grid) - 1) :
        r.x <= At(gate_grid, c) /\ At(gate_grid, c) <= r.x + r.w}

DrewBarrierRectangle ==
    /\ DrewControls
    /\ IsStartBarrier(h.in.gate[1])
    /\ Ok(h.out)

\* C7 as claimed: the rectangle of a start barrier at column i whose name
\* carries the count k covers the inner columns and both barrier columns,
\* i .. i+k+1.
C7_SpanWithBarrierColumns ==
    DrewBarrierRectangle =>
        /\ Len(h.out.canvas) = 1
        /\ h.out.canvas[1].prim = "rect"
        /\ ColumnsCovered(h.out.canvas[1], h.in.gate_grid)
               = h.in.i .. (h.in.i + NFused(h.in.gate[1]) + 1)

\* C7 amended: the rectangle runs from 0.30 left of column i+1 to 0.30 right of
\* column i+k, so that (the scale being above 0.30) it covers exactly the k
\* columns after the start barrier and neither barrier column.
C7_SpanInnerColumns ==
    DrewBarrierRectangle =>
        LET i == h.in.i
            k == NFused(h.in.gate[1])
        IN /\ Len(h.out.canvas) = 1
           /\ h.out.canvas[1].prim = "rect"
           /\ h.out.canvas[1].x = (i + 1) * h.in.scale - 30
           /\ h.out.canvas[1].x + h.out.canvas[1].w = (i + k) * h.in.scale + 30
           /\ ColumnsCovered(h.out.canvas[1], h.in.gate_grid) = (i + 1)..(i + k)

\* A start barrier with count 1 at column 0, one inner column, the end barrier.
C7_Witness ==
    /\ DrewBarrierRectangle
    /\ h.in.i = 0
    /\ NFused(h.in.gate[1]) = 1
    /\ Len(h.in.l) = 3
    /\ h.in.l[2][1][1] = "CNOT"
    /\ h.in.l[3][1][1] = EndBarrierName
    /\ Len(h.out.canvas) = 1

\* The second connector line of _draw_controls: the one 0.04 right of column i.
SecondLineDrawn ==
    \E k \in 1..Len(h.out.canvas) :
        /\ h.out.canvas[k].prim = "line"
        /\ h.out.canvas[k].x1 = At(h.in.gate_grid, h.in.i) + 4

\* A measurement tuple on label c stands in a column before column i.
MeasuredEarlier(c, i, l) ==
    \E j \in 1..Len(l) :
        /\ j - 1 < i
        /\ \E t \in 1..Len(l[j]) : l[j][t][1] = "MEASURE" /\ l[j][t][2] = c

\* C10: for a controlled, non-barrier tuple drawn at column i, the second
\* connector line is drawn if and only if one of its control qubits has a
\* measurement tuple at some column j < i.
C10_DoubleLineIffMeasuredEarlier ==
    (DrewControls /\ Ok(h.out) /\ ~IsStartBarrier(h.in.gate[1])
        /\ ~IsEndBarrier(h.in.gate[1])) =>
        (SecondLineDrawn <=>
            \E c \in Range(Tail2(h.in.gate)) : MeasuredEarlier(c, h.in.i, h.in.l))


-----------------------------------------------------------------------------
(* SpecCheckStr: _check_list_str and its two callers, called directly. *)

\* The lists the code passes (lines 569, 320), and the empty list.
SubstringLists == {<<"SX", "CSX">>, <<"dagger", "sqrt">>, <<>>}

\* Gate names in upper case, a label text and the text of a square-root-X.
CheckStrings ==
    {"H", "SX", "CSX", "SXDG", "MEASURE", _render_label(Label(0), <<>>),
     "$\\rm{\\sqrt{X}}$"}

\* Gate objects _process_gates is called with.
GateObjects ==
    {GateH(q) : q \in Qubits} \cup {GateM(q) : q \in Qubits}
        \cup {GateCNOT(p[1], p[2]) : p \in {p \in Qubits \X Qubits : p[1] # p[2]}}

CheckInputs ==
    {[kind |-> "_check_list_str", substrings |-> l, string |-> str] :
         l \in SubstringLists, str \in CheckStrings}
        \cup {[kind |-> "_process_gates", array_gates |-> g] :
                  g \in SeqsUpTo(GateObjects, MaxItems)}
        \cup {[kind |-> "_text", textstr |-> str, box |-> b] :
                  str \in CheckStrings, b \in BOOLEAN}

InitCheckStr ==
    /\ HelperOnly
    /\ plot_params = InitialPlotParams
    /\ \E in \in CheckInputs : h = [fn |-> "input", in |-> in, out |-> <<>>]

CallCheckListStr ==
    /\ h.fn = "input"
    /\ h.in.kind = "_check_list_str"
    /\ h' = [fn |-> "_check_list_str", in |-> h.in,
             out |-> _check_list_str(h.in.substrings, h.in.string)]
    /\ UNCHANGED <<plot_params, HelperVars>>

CallProcessGates ==
    /\ h.fn = "input"
    /\ h.in.kind = "_process_gates"
    /\ h' = [fn |-> "_process_gates", in |-> h.in,
             out |-> _process_gates(h.in.array_gates)]
    /\ UNCHANGED <<plot_params, HelperVars>>

CallText ==
    /\ h.fn = "input"
    /\ h.in.kind = "_text"
    /\ h' = [fn |-> "_text", in |-> h.in,
             out |-> _text(NewAx, 0, 0, h.in.textstr, plot_params, h.in.box)]
    /\ UNCHANGED <<plot_params, HelperVars>>

NextCheckStr == CallCheckListStr \/ CallProcessGates \/ CallText

SpecCheckStr == InitCheckStr /\ [][NextCheckStr]_vars

\* What may stand before and after a substring in the strings above.
Affixes == {"", "C", "DG", "$\\rm{\\", "{X}}$"}

\* sub occurs inside string.
Occurs(sub, string) == \E a \in Affixes, b \in Affixes : string = a \o sub \o b

\* C12: _check_list_str returns, without raising, whether one of the
\* substrings occurs inside the string; so _process_gates completes for every
\* gate name and _text for every text.
C12_CheckListStr ==
    /\ h.fn = "_check_list_str" =>
           /\ h.out.raises = ""
           /\ h.out.value
                  <=> \E k \in 1..Len(h.in.substrings) :
                          Occurs(h.in.substrings[k], h.in.string)
    /\ h.fn = "_process_gates" =>
           /\ h.out.status = "ok"
           /\ Len(h.out.gates_plot) = Len(h.in.array_gates)
    /\ h.fn = "_text" => (Ok(h.out) /\ Len(h.out.canvas) = 1)

-----------------------------------------------------------------------------
(* The configuration files and the arguments of plot. *)

\* symbols.json: display strings for some gate names.
SymbolsJson == [k \in {"ID"} |-> "I"]

ColorKeys ==
    {"facecolor", "edgecolor", "fillcolor", "linecolor", "textcolor",
     "gatecolor", "controlcolor"}

\* styles.json holds a "default" style and named styles.  Two contents are
\* modelled: one whose styles set the colours only, one whose default style
\* sets every parameter but the scale.
DefaultColors == [k \in ColorKeys |-> InitialPlotParams[k]]
GarnachaColors ==
    [k \in ColorKeys |-> IF k \in {"linecolor", "edgecolor"} THEN "#5e2129"
                         ELSE InitialPlotParams[k]]
StylesColorsOnly == [default |-> DefaultColors, garnacha |-> GarnachaColors]
StylesAllKeys ==
    [default |-> [k \in (DOMAIN InitialPlotParams) \ {"scale"} |->
                      InitialPlotParams[k]],
     garnacha |-> GarnachaColors]
StylesFiles == {StylesColorsOnly, StylesAllKeys}

Files == [symbols |-> SymbolsJson, styles |-> styles_json]

\* The circuit of tests/test_ui_mpldrawer.py.
TestQueue == <<GateH(0), GateCNOT(0, 1), GateM(0), GateM(1)>>

\* Queues of a circuit of n qubits, all acting on qubits 0..n-1.
QueuesOf(n) ==
    {<<>>, <<GateH(0)>>, <<GateM(0)>>, <<FusedGate(<<GateH(n - 1)>>)>>}
        \cup (IF n >= 2
              THEN {<<GateCNOT(0, 1)>>, TestQueue,
                    <<FusedGate(<<GateH(0), GateH(n - 1)>>)>>}
              ELSE {})

Circuits ==
    UNION {{[nqubits |-> n, queue |-> q] : q \in QueuesOf(n)} : n \in 1..MaxQubits}

StyleArgs ==
    {StyleNone, StyleDict([linewidth |-> 200]), StyleDict([linecolor |-> "r"]),
     StyleName("garnacha")}

PlotArgs ==
    [circuit : Circuits, scale : ScaleValues, cluster_gates : BOOLEAN,
     style : StyleArgs]

\* The calls of the concurrent runs: circuits without instructions, and the
\* test circuit.
ConcArgs ==
    {a \in PlotArgs : a.cluster_gates /\ a.circuit.queue \in {<<>>, TestQueue}}

-----------------------------------------------------------------------------
(* Spec: one thread calls plot again and again.                             *)
(* SpecConc: two threads call plot once each, their steps interleaved.      *)

Threads == DOMAIN pc

IdleHelper == h = [fn |-> "none", in |-> <<>>, out |-> <<>>]

InitThreads(T, calls) ==
    /\ plot_params = InitialPlotParams
    /\ STYLE = <<>>
    /\ SYMBOLS = <<>>
    /\ styles_json \in StylesFiles
    /\ pc = [t \in T |-> "idle"]
    /\ frame = [t \in T |-> <<>>]
    /\ ax = [t \in T |-> NewAx]
    /\ last = NoCall
    /\ budget = [t \in T |-> calls]
    /\ IdleHelper

Init == InitThreads({1}, MaxCalls)

InitConc == InitThreads({1, 2}, 1)

CallWith(t, args) ==
    /\ pc[t] = "idle"
    /\ budget[t] > 0
    /\ budget' = [budget EXCEPT ![t] = @ - 1]
    /\ pc' = [pc EXCEPT ![t] = StartCall(args).pc]
    /\ frame' = [frame EXCEPT ![t] = StartCall(args).frame]
    /\ ax' = [ax EXCEPT ![t] = StartCall(args).ax]
    /\ UNCHANGED <<plot_params, STYLE, SYMBOLS, styles_json, last, h>>

Call == \E t \in Threads, args \in PlotArgs : CallWith(t, args)

CallConc == \E t \in Threads, args \in ConcArgs : CallWith(t, args)

\* The module's dicts, and thread t's own part of the state.
Module == [plot_params |-> plot_params, STYLE |-> STYLE, SYMBOLS |-> SYMBOLS]
Thread(t) == [pc |-> pc[t], frame |-> frame[t], ax |-> ax[t]]

\* Thread t takes the step r of plot, which it stands at.
StepAt(t, label, r) ==
    /\ pc[t] = label
    /\ plot_params' = r.g.plot_params
    /\ STYLE' = r.g.STYLE
    /\ SYMBOLS' = r.g.SYMBOLS
    /\ pc' = [pc EXCEPT ![t] = r.t.pc]
    /\ frame' = [frame EXCEPT ![t] = r.t.frame]
    /\ ax' = [ax EXCEPT ![t] = r.t.ax]
    /\ UNCHANGED <<styles_json, last, budget, h>>

plot_load ==
    \E t \in Threads : StepAt(t, "load", PlotLoad(Module, Thread(t), Files))
plot_style ==
    \E t \in Threads : StepAt(t, "style", PlotStyle(Module, Thread(t)))
plot_labels ==
    \E t \in Threads : StepAt(t, "labels", PlotInitsLabels(Module, Thread(t)))
plot_gates ==
    \E t \in Threads : StepAt(t, "gates", PlotGates(Module, Thread(t)))
lines_update ==
    \E t \in Threads : StepAt(t, "lines_update", LinesUpdate(Module, Thread(t)))
lines_scale ==
    \E t \in Threads : StepAt(t, "lines_scale", LinesScale(Module, Thread(t)))
lines_setup_figure ==
    \E t \in Threads :
        StepAt(t, "setup_figure", LinesSetupFigure(Module, Thread(t)))
lines_draw_wires ==
    \E t \in Threads : StepAt(t, "draw_wires", LinesDrawWires(Module, Thread(t)))
lines_draw_labels ==
    \E t \in Threads :
        StepAt(t, "draw_labels", LinesDrawLabels(Module, Thread(t)))

\* The call returns, or its exception leaves plot.
ReturnOf(t) ==
    /\ pc[t] = "done"
    /\ last' = [status |-> ax[t].status, args |-> ArgsOf(frame[t]),
                canvas |-> ax[t].canvas, all_gates |-> frame[t].all_gates,
                gates_plot |-> frame[t].gates_plot,
                gate_grid |-> frame[t].gate_grid, thread |-> t]
    /\ pc' = [pc EXCEPT ![t] = "idle"]
    /\ frame' = [frame EXCEPT ![t] = <<>>]
    /\ ax' = [ax EXCEPT ![t] = NewAx]
    /\ UNCHANGED <<plot_params, STYLE, SYMBOLS, styles_json, budget, h>>

Return == \E t \in Threads : ReturnOf(t)

Steps ==
    \/ plot_load
    \/ plot_style
    \/ plot_labels
    \/ plot_gates
    \/ lines_update
    \/ lines_scale
    \/ lines_setup_figure
    \/ lines_draw_wires
    \/ lines_draw_labels
    \/ Return

Next == Call \/ Steps

NextConc == CallConc \/ Steps

Spec == Init /\ [][Next]_vars

SpecConc == InitConc /\ [][NextConc]_vars


-----------------------------------------------------------------------------
(* Properties of the calls of plot. *)

\* A call of plot has ended; last holds what it was called with and what it
\* left.
PlotEnded == last.status # "none"

Prims(canvas, kind) == {k \in 1..Len(canvas) : canvas[k].prim = kind}

IsPrefix(s, t) == Len(s) <= Len(t) /\ \A k \in 1..Len(s) : s[k] = t[k]

\* C1: two successive calls of plot with identical arguments both complete
\* and leave the same sequence of drawing primitives, with the same
\* coordinates and the same style values.
C1_SameArgsSameOutput ==
    [][(Return /\ PlotEnded /\ last'.args = last.args) =>
           /\ last.status = "ok"
           /\ last'.status = "ok"
           /\ last'.canvas = last.canvas]_vars

C6_EmptyCircuit ==
    (PlotEnded /\ last.args.circuit.queue = <<>>) =>
        LET n == last.args.circuit.nqubits
            c == last.canvas
        IN /\ last.status = "ok"
           /\ Len(last.gate_grid) = n
           /\ Cardinality(Prims(c, "line")) = n
           /\ {c[k].text : k \in Prims(c, "text")}
                  = {_render_label(Label(q), [j \in 1..n |-> j - 1]) : q \in 0..(n - 1)}
           /\ Cardinality(Prims(c, "text")) = n
           /\ Len(c) = 2 * n + 1

\* C8: while two calls of plot run concurrently, each call's grids, figure
\* size and drawing primitives are those of its own arguments: what it has
\* drawn so far is the beginning of what it draws when it runs alone, and the
\* scale it has read is the scale it was called with.
C8_OwnValues ==
    \A t \in Threads :
        pc[t] # "idle" =>
            /\ IsPrefix(ax[t].canvas, FreshRun(ArgsOf(frame[t]), Files).canvas)
            /\ frame[t].lscale \in {0, frame[t].scale}
            /\ frame[t].wscale \in {0, frame[t].scale}

\* C9: nothing is carried over from one call of plot to the next: what a call
\* draws, and how it ends, is what the same call draws as the first call
\* after the module is imported.
C9_NothingCarriedOver ==
    PlotEnded =>
        /\ last.canvas = FreshRun(last.args, Files).canvas
        /\ last.status = FreshRun(last.args, Files).status


====
